---- MODULE Spec2Model ----
(***************************************************************************)
(* Cellular Life Simulation (cellular_simulation.py).                      *)
(*                                                                         *)
(* A matrix is a sequence of rows, each a sequence of cell states; Python's *)
(* 0-based index m[r][c] is Cell(m, r, c).  Typed input lines are sequences *)
(* of one-character strings.  main's list objects live in a two-slot heap   *)
(* (heap[ref]) so that aliasing between the matrix passed to step_matrix    *)
(* and the matrix it builds is expressible.                                 *)
(*                                                                         *)
(* Spec      the program: main's prompt loops, generate_matrix, the         *)
(*           stepping loop (step_matrix one cell at a time, in the code's   *)
(*           row-major order), write_final_time_step, prompt_to_continue.   *)
(* FairSpec  Spec with weak fairness of main's steps that read no input.    *)
(* SpecCore  count_alive_neighbors and step_matrix as pure functions over   *)
(*           every rectangular matrix of at most MaxCells cells.            *)
(***************************************************************************)
EXTENDS Integers, Sequences, FiniteSets

VARIABLES
    pc,          \* main's position
    rows, cols, seed, iterations, i,   \* main's locals (None while unbound)
    matrix,      \* main's local `matrix`: a heap reference
    heap,        \* ref -> matrix value (NoMatrix: no live object)
    new_matrix,  \* step_matrix's local `new_matrix`: a heap reference
    row, col,    \* step_matrix's loop variables
    console,     \* the last ConsoleTail lines printed since input() last returned
    fileState,   \* final_time_step.txt: "absent", "written" or "partial"
    write_ret,   \* what the last write_final_time_step call returned
    calls,       \* step_matrix calls made in the current run
    initial,     \* value generate_matrix returned in the current run
    stepIn,      \* value of the argument of the latest step_matrix call
    lastOut,     \* value the latest completed step_matrix call returned
    handed,      \* value handed to write_final_time_step in the current run
    lastRead,    \* reference the latest determine_cell_state call read from
    typed,       \* the latest line read by input(), and the prompt that read it
    grid, prev, coreOp, cRow, cCol, alive_count   \* SpecCore

mainVars == <<pc, rows, cols, seed, iterations, i, matrix, heap, new_matrix,
              row, col, console, fileState, write_ret, calls, initial, stepIn,
              lastOut, handed, lastRead, typed>>
coreVars == <<grid, prev, coreOp, cRow, cCol, alive_count>>
vars == <<mainVars, coreVars>>

----------------------------------------------------------------------------
(* Program constants *)
MIN_DIMENSION == 3
MAX_DIMENSION == 20
MIN_TIME_STEP == 1
MAX_TIME_STEP == 99
ALIVE == "O"
DEAD == "."
CellStates == {ALIVE, DEAD}

(* Bounds of the model *)
MaxCells == 9       \* SpecCore: matrices of at most this many cells
MaxSeeded == 4      \* Spec: cells of a generated matrix that may be ALIVE
ConsoleTail == 3    \* lines of standard output kept

None == 0 - 1       \* an unbound integer local
NoMatrix == <<>>    \* a heap slot holding no object
Refs == {0, 1}
NoInput == [at |-> "none", line |-> <<>>]

----------------------------------------------------------------------------
(* Matrices *)
Len2(m) == IF Len(m) = 0 THEN 0 ELSE Len(m[1])       \* len(matrix[0])
Cell(m, r, c) == m[r + 1][c + 1]                     \* matrix[r][c]
IsRect(m, nr, nc) ==
    /\ Len(m) = nr
    /\ \A r \in 1..nr : Len(m[r]) = nc /\ \A c \in 1..nc : m[r][c] \in CellStates
AllDead(m) == \A r \in 1..Len(m) : \A c \in 1..Len(m[r]) : m[r][c] = DEAD
Matrices(nr, nc) == [1..nr -> [1..nc -> CellStates]]
Range(f) == {f[x] : x \in DOMAIN f}

(* Edges clamped instead of wrapped *)
PyModClamped(a, n) == IF a < 0 THEN 0 ELSE IF a >= n THEN n - 1 ELSE a

(* Python's %, for a positive right operand: the result is in 0..n-1 *)
PyMod(a, n) == a % n

(* The (wrapped_r, wrapped_c) pairs count_alive_neighbors examines, in loop *)
(* order: k runs over the 9 (r, c) pairs of the two nested ranges and the   *)
(* pair with r == row and c == col is skipped.                              *)
SkipSelfNever(r, c, ro, co) == FALSE

SkipSelf(r, c, ro, co) == r = ro /\ c = co

RECURSIVE NeighborCoords(_, _, _, _, _)
NeighborCoords(nr, nc, ro, co, k) ==
    IF k = 9 THEN <<>>
    ELSE LET r == ro - 1 + (k \div 3)
             c == co - 1 + (k % 3)
             rest == NeighborCoords(nr, nc, ro, co, k + 1)
         IN IF SkipSelf(r, c, ro, co) THEN rest
            ELSE <<(<<PyMod(r, nr), PyMod(c, nc)>>)>> \o rest

RECURSIVE CountAlive(_, _)
CountAlive(m, coords) ==
    IF coords = <<>> THEN 0
    ELSE (IF Cell(m, coords[1][1], coords[1][2]) = ALIVE THEN 1 ELSE 0)
         + CountAlive(m, Tail(coords))

count_alive_neighbors(m, ro, co) ==
    CountAlive(m, NeighborCoords(Len(m), Len2(m), ro, co, 0))

(* Survival on {2, 3} only *)
determine_cell_state_survive23(m, ro, co) ==
    LET alive_neighbors == count_alive_neighbors(m, ro, co)
    IN IF Cell(m, ro, co) = ALIVE
       THEN (IF alive_neighbors \in {2, 3} THEN ALIVE ELSE DEAD)
       ELSE (IF alive_neighbors > 0 /\ alive_neighbors % 2 = 0 THEN ALIVE ELSE DEAD)

(* Birth on every even count, 0 included *)
determine_cell_state_even0(m, ro, co) ==
    LET alive_neighbors == count_alive_neighbors(m, ro, co)
    IN IF Cell(m, ro, co) = ALIVE
       THEN (IF alive_neighbors \in {2, 3, 4} THEN ALIVE ELSE DEAD)
       ELSE (IF alive_neighbors % 2 = 0 THEN ALIVE ELSE DEAD)

determine_cell_state(m, ro, co) ==
    LET alive_neighbors == count_alive_neighbors(m, ro, co)
    IN IF Cell(m, ro, co) = ALIVE
       THEN (IF alive_neighbors \in {2, 3, 4} THEN ALIVE ELSE DEAD)
       ELSE (IF alive_neighbors > 0 /\ alive_neighbors % 2 = 0 THEN ALIVE ELSE DEAD)

(* rows and cols exchanged *)
FreshMatrixSwapped(m) == [r \in 1..Len2(m) |-> [c \in 1..Len(m) |-> DEAD]]

(* new_matrix = [[DEAD for _ in range(cols)] for _ in range(rows)] *)
FreshMatrix(m) == [r \in 1..Len(m) |-> [c \in 1..Len2(m) |-> DEAD]]

(* step_matrix as a function of its argument: every cell of the fresh      *)
(* matrix is assigned determine_cell_state(matrix, row, col).              *)
step_matrix(m) ==
    [r \in 1..Len(m) |-> [c \in 1..Len2(m) |-> determine_cell_state(m, r - 1, c - 1)]]

----------------------------------------------------------------------------
(* Text *)
Digits == <<"0", "1", "2", "3", "4", "5", "6", "7", "8", "9">>
IsDigit(ch) == \E d \in 1..10 : Digits[d] = ch
DigitVal(ch) == (CHOOSE d \in 1..10 : Digits[d] = ch) - 1

RECURSIVE Strip(_)
Strip(t) ==                       \* int() ignores surrounding whitespace
    IF t = <<>> THEN t
    ELSE IF Head(t) = " " THEN Strip(Tail(t))
    ELSE IF t[Len(t)] = " " THEN Strip(SubSeq(t, 1, Len(t) - 1))
    ELSE t

RECURSIVE DigitsValue(_, _)
DigitsValue(t, acc) ==
    IF t = <<>> THEN acc ELSE DigitsValue(Tail(t), 10 * acc + DigitVal(Head(t)))

(* int(value): [ok |-> FALSE] stands for ValueError *)
IntParse(t) ==
    LET u == Strip(t)
        signed == u # <<>> /\ Head(u) \in {"+", "-"}
        body == IF signed THEN Tail(u) ELSE u
    IN IF body # <<>> /\ \A k \in 1..Len(body) : IsDigit(body[k])
       THEN [ok |-> TRUE,
             val |-> IF signed /\ Head(u) = "-" THEN 0 - DigitsValue(body, 0)
                     ELSE DigitsValue(body, 0)]
       ELSE [ok |-> FALSE, val |-> 0]

RECURSIVE IntToStr(_)
IntToStr(n) ==                    \* str(n) of an f-string
    IF n < 0 THEN "-" \o IntToStr(0 - n)
    ELSE IF n < 10 THEN Digits[n + 1]
    ELSE IntToStr(n \div 10) \o Digits[(n % 10) + 1]

RECURSIVE Join(_)
Join(cells) == IF cells = <<>> THEN "" ELSE Head(cells) \o Join(Tail(cells))   \* "".join(row)

UpperChar(ch) == IF ch = "y" THEN "Y" ELSE IF ch = "n" THEN "N" ELSE IF ch = "q" THEN "Q" ELSE ch
Upper(t) == [k \in 1..Len(t) |-> UpperChar(t[k])]                        \* str.upper()

LastLines(out) ==
    IF Len(out) <= ConsoleTail THEN out ELSE SubSeq(out, Len(out) - ConsoleTail + 1, Len(out))
Printed(lines) == LastLines(console \o lines)             \* print(...)
PrintedAfterInput(lines) == LastLines(lines)        \* input(...), then print(...)

(* display_matrix: one printed line per row *)
display_matrix(m) == [r \in 1..Len(m) |-> Join(m[r])]

----------------------------------------------------------------------------
(* The lines a user may type at each prompt *)
TypedRows == {<<>>, <<"3", ".", "5">>, <<"2">>, <<"3">>, <<"2", "1">>, <<"-", "3">>}
TypedColumns == {<<"c">>, <<"2">>, <<"3">>, <<" ", "4">>, <<"2", "1">>}
TypedSeed == {<<>>, <<"s">>, <<"7">>}
TypedIterations == {<<"x">>, <<"0">>, <<"1">>, <<"2">>, <<"1", "0", "0">>}
TypedAnswer == {<<"y">>, <<"N">>, <<"q">>, <<"Y", "Y">>}
RandomSeeds == {7}                \* outcomes of random.randint(1, 100000000)

(* One pass of get_dimension's loop on the typed line *)
DimensionError(name) ==
    "Error: Number of " \o name \o " must be between " \o IntToStr(MIN_DIMENSION)
        \o " and " \o IntToStr(MAX_DIMENSION) \o "."
InvalidInteger == "Error: Please enter a valid integer."

(* No range test *)
get_dimension_unchecked(t, name) ==
    LET p == IntParse(t)
    IN IF ~p.ok THEN [returns |-> FALSE, value |-> None, printed |-> <<InvalidInteger>>]
       ELSE [returns |-> TRUE, value |-> p.val, printed |-> <<>>]

get_dimension(t, name) ==
    LET p == IntParse(t)
    IN IF ~p.ok THEN [returns |-> FALSE, value |-> None, printed |-> <<InvalidInteger>>]
       ELSE IF MIN_DIMENSION <= p.val /\ p.val <= MAX_DIMENSION
            THEN [returns |-> TRUE, value |-> p.val, printed |-> <<>>]
            ELSE [returns |-> FALSE, value |-> None, printed |-> <<DimensionError(name)>>]

(* One pass of get_iterations' loop *)
IterationsError ==
    "Error: Number of time steps must be between " \o IntToStr(MIN_TIME_STEP)
        \o " and " \o IntToStr(MAX_TIME_STEP) \o "."
get_iterations(t) ==
    LET p == IntParse(t)
    IN IF ~p.ok THEN [returns |-> FALSE, value |-> None, printed |-> <<InvalidInteger>>]
       ELSE IF MIN_TIME_STEP <= p.val /\ p.val <= MAX_TIME_STEP
            THEN [returns |-> TRUE, value |-> p.val, printed |-> <<>>]
            ELSE [returns |-> FALSE, value |-> None, printed |-> <<IterationsError>>]

(* One pass of get_seed_value's loop; rnd is what random.randint returns *)
get_seed_value(t, rnd) ==
    IF t = <<>>
    THEN [returns |-> TRUE, value |-> rnd, printed |-> <<"Using random seed: " \o IntToStr(rnd)>>]
    ELSE LET p == IntParse(t)
         IN IF p.ok THEN [returns |-> TRUE, value |-> p.val, printed |-> <<>>]
            ELSE [returns |-> FALSE, value |-> None,
                  printed |-> <<"Error: Please enter a valid integer or press Enter for a random seed.">>]

(* The matrices generate_matrix(nr, nc, seed) may return: nr rows of nc      *)
(* cells, each ALIVE or DEAD; here only the first MaxSeeded cells drawn      *)
(* (row-major) may be ALIVE.                                                 *)
generate_matrix(nr, nc) ==
    {[r \in 1..nr |-> [c \in 1..nc |-> IF (r - 1) * nc + c \in A THEN ALIVE ELSE DEAD]] :
        A \in SUBSET (1..(IF nr * nc < MaxSeeded THEN nr * nc ELSE MaxSeeded))}

(* write_final_time_step: ok is whether every file operation succeeded *)
WriteError == "Error writing to file: [Errno 13] Permission denied"

(* No except clause *)
write_final_time_step_uncaught(ok) ==
    [ret |-> IF ok THEN "True" ELSE "none", printed |-> <<>>, raised |-> ~ok]

write_final_time_step(ok) ==
    IF ok THEN [ret |-> "True", printed |-> <<>>, raised |-> FALSE]
    ELSE [ret |-> "False", printed |-> <<WriteError>>, raised |-> FALSE]

(* Lines 48-49 of main: what is printed once write_final_time_step returned ret *)
SimulationComplete ==
    "Simulation complete! The final matrix has been saved to \"final_time_step.txt\"."
(* The message only after a successful write *)
CompletionLinesIfSaved(ret) == IF ret = "True" THEN <<"", SimulationComplete>> ELSE <<>>

CompletionLines(ret) == <<"", SimulationComplete>>

GoodbyeLine == "Thank you for using the Cellular Life Simulation program. Goodbye!"

(* One pass of prompt_to_continue's loop *)
prompt_to_continue(t) ==
    LET again == Upper(t)
    IN IF again = <<"Y">> THEN [returns |-> TRUE, value |-> TRUE, printed |-> <<>>]
       ELSE IF again = <<"N">> THEN [returns |-> TRUE, value |-> FALSE, printed |-> <<>>]
       ELSE [returns |-> FALSE, value |-> FALSE,
             printed |-> <<"Not a valid answer. Please enter Y or N.">>]

----------------------------------------------------------------------------
(* Spec: the program *)
Init ==
    /\ pc = "start" /\ rows = None /\ cols = None /\ seed = None
    /\ iterations = None /\ i = None /\ matrix = 0
    /\ heap = [r \in Refs |-> NoMatrix] /\ new_matrix = 0
    /\ row = None /\ col = None /\ console = <<>> /\ fileState = "absent"
    /\ write_ret = "none" /\ calls = 0 /\ initial = NoMatrix /\ stepIn = NoMatrix
    /\ lastOut = NoMatrix /\ handed = NoMatrix /\ lastRead = None
    /\ typed = NoInput
    /\ grid = NoMatrix /\ prev = NoMatrix /\ coreOp = "none"
    /\ cRow = 0 /\ cCol = 0 /\ alive_count = 0

runVars == <<calls, initial, stepIn, lastOut, handed, lastRead, write_ret>>
stepVars == <<new_matrix, row, col>>

(* main, lines 20-23 *)
Banner ==
    /\ pc = "start"
    /\ console' = Printed(<<"Cellular Life Simulation", "-------------------------",
                            "This program simulates cellular life using matrices.",
                            "The final matrix will be saved to \"final_time_step.txt\" in your current directory.">>)
    /\ pc' = "while"
    /\ UNCHANGED <<rows, cols, seed, iterations, i, matrix, heap, stepVars, fileState,
                   runVars, typed, coreVars>>

(* main, line 27 *)
NewRun ==
    /\ pc = "while"
    /\ console' = Printed(<<"">>)
    /\ pc' = "get_rows"
    /\ UNCHANGED <<rows, cols, seed, iterations, i, matrix, heap, stepVars, fileState,
                   runVars, typed, coreVars>>

(* main, line 28: one prompt of get_dimension("rows") *)
GetRows ==
    /\ pc = "get_rows"
    /\ \E t \in TypedRows :
          LET g == get_dimension(t, "rows")
          IN /\ typed' = [at |-> "get_rows", line |-> t]
             /\ console' = PrintedAfterInput(g.printed)
             /\ rows' = IF g.returns THEN g.value ELSE rows
             /\ pc' = IF g.returns THEN "get_cols" ELSE "get_rows"
    /\ UNCHANGED <<cols, seed, iterations, i, matrix, heap, stepVars, fileState,
                   runVars, coreVars>>

(* main, line 29: one prompt of get_dimension("columns") *)
GetCols ==
    /\ pc = "get_cols"
    /\ \E t \in TypedColumns :
          LET g == get_dimension(t, "columns")
          IN /\ typed' = [at |-> "get_cols", line |-> t]
             /\ console' = PrintedAfterInput(g.printed)
             /\ cols' = IF g.returns THEN g.value ELSE cols
             /\ pc' = IF g.returns THEN "get_seed" ELSE "get_cols"
    /\ UNCHANGED <<rows, seed, iterations, i, matrix, heap, stepVars, fileState,
                   runVars, coreVars>>

(* main, line 30: one prompt of get_seed_value() *)
GetSeed ==
    /\ pc = "get_seed"
    /\ \E t \in TypedSeed, rnd \in RandomSeeds :
          LET g == get_seed_value(t, rnd)
          IN /\ typed' = [at |-> "get_seed", line |-> t]
             /\ console' = PrintedAfterInput(g.printed)
             /\ seed' = IF g.returns THEN g.value ELSE seed
             /\ pc' = IF g.returns THEN "get_iterations" ELSE "get_seed"
    /\ UNCHANGED <<rows, cols, iterations, i, matrix, heap, stepVars, fileState,
                   runVars, coreVars>>

(* main, line 31: one prompt of get_iterations() *)
GetIterations ==
    /\ pc = "get_iterations"
    /\ \E t \in TypedIterations :
          LET g == get_iterations(t)
          IN /\ typed' = [at |-> "get_iterations", line |-> t]
             /\ console' = PrintedAfterInput(g.printed)
             /\ iterations' = IF g.returns THEN g.value ELSE iterations
             /\ pc' = IF g.returns THEN "generate" ELSE "get_iterations"
    /\ UNCHANGED <<rows, cols, seed, i, matrix, heap, stepVars, fileState,
                   runVars, coreVars>>

(* main, lines 34-37 and the start of the for statement: the matrices of    *)
(* earlier runs are garbage once `matrix` is rebound.  i is the number of   *)
(* iterations of the for loop started (Python's i is one less in the body). *)
Generate ==
    /\ pc = "generate"
    /\ \E m \in generate_matrix(rows, cols) :
          /\ heap' = [r \in Refs |-> IF r = 0 THEN m ELSE NoMatrix]
          /\ initial' = m
          /\ console' = Printed(<<"", "Initial Matrix (Time Step 1):">> \o display_matrix(m))
    /\ matrix' = 0
    /\ i' = 0
    /\ calls' = 0 /\ stepIn' = NoMatrix /\ lastOut' = NoMatrix /\ handed' = NoMatrix
    /\ lastRead' = None /\ write_ret' = "none"
    /\ pc' = "for"
    /\ UNCHANGED <<rows, cols, seed, iterations, stepVars, fileState, typed, coreVars>>

(* A reference no live object has: a new list is a new object *)
Alloc == CHOOSE r \in Refs : heap[r] = NoMatrix

(* main, line 40-41 and step_matrix, lines 156-158: the next iteration      *)
(* calls step_matrix(matrix), which builds the all-DEAD new_matrix; or the   *)
(* range is exhausted and main goes on to line 47.                           *)
ForNext ==
    /\ pc = "for"
    /\ IF i < iterations
       THEN LET fresh == Alloc
            IN /\ i' = i + 1
               /\ calls' = calls + 1
               /\ stepIn' = heap[matrix]
               /\ new_matrix' = fresh
               /\ heap' = [heap EXCEPT ![fresh] = FreshMatrix(heap[matrix])]
               /\ row' = 0 /\ col' = 0
               /\ lastRead' = None
               /\ pc' = "step"
       ELSE /\ pc' = "write"
            /\ UNCHANGED <<i, calls, stepIn, new_matrix, heap, row, col, lastRead>>
    /\ UNCHANGED <<rows, cols, seed, iterations, matrix, console, fileState, write_ret,
                   initial, lastOut, handed, typed, coreVars>>

(* Reading the matrix being built *)
StepSourceOutput == new_matrix

(* The matrix step_matrix passes to determine_cell_state *)
StepSource == matrix

(* step_matrix, lines 161-163: one assignment of the nested loops *)
StepCell ==
    /\ pc = "step"
    /\ row < Len(heap[matrix])
    /\ heap' = [heap EXCEPT ![new_matrix][row + 1][col + 1] =
                                determine_cell_state(heap[StepSource], row, col)]
    /\ lastRead' = StepSource
    /\ IF col + 1 < Len2(heap[matrix])
       THEN col' = col + 1 /\ row' = row
       ELSE col' = 0 /\ row' = row + 1
    /\ UNCHANGED <<pc, rows, cols, seed, iterations, i, matrix, new_matrix, console,
                   fileState, write_ret, calls, initial, stepIn, lastOut, handed,
                   typed, coreVars>>

(* The returned matrix dropped *)
StepResultDiscarded == matrix

(* What main binds `matrix` to at line 41 *)
StepResult == new_matrix

(* step_matrix, line 165, and main, lines 41-44 *)
StepReturn ==
    /\ pc = "step"
    /\ row = Len(heap[matrix])
    /\ lastOut' = heap[new_matrix]
    /\ matrix' = StepResult
    /\ heap' = [r \in Refs |-> IF r = StepResult THEN heap[r] ELSE NoMatrix]
    /\ console' = Printed(<<"", "Matrix at Time Step " \o IntToStr(i + 1) \o ":">>
                          \o display_matrix(heap[StepResult]))
    /\ row' = None /\ col' = None
    /\ pc' = "for"
    /\ UNCHANGED <<rows, cols, seed, iterations, i, new_matrix, fileState, write_ret,
                   calls, initial, stepIn, handed, lastRead, typed, coreVars>>

(* main, line 47: write_final_time_step(matrix, iterations).  A failed write *)
(* leaves the file as it was or truncated.                                   *)
WriteFinal ==
    /\ pc = "write"
    /\ handed' = heap[matrix]
    /\ \E ok \in BOOLEAN :
          LET w == write_final_time_step(ok)
          IN /\ write_ret' = w.ret
             /\ console' = Printed(w.printed)
             /\ pc' = IF w.raised THEN "crashed" ELSE "complete"
             /\ IF ok THEN fileState' = "written"
                ELSE fileState' \in {fileState, "partial"}
    /\ UNCHANGED <<rows, cols, seed, iterations, i, matrix, heap, stepVars, calls,
                   initial, stepIn, lastOut, lastRead, typed, coreVars>>

(* main, lines 48-49 *)
PrintComplete ==
    /\ pc = "complete"
    /\ console' = Printed(CompletionLines(write_ret))
    /\ pc' = "prompt"
    /\ UNCHANGED <<rows, cols, seed, iterations, i, matrix, heap, stepVars, fileState,
                   runVars, typed, coreVars>>

(* main, lines 52-54: one prompt of prompt_to_continue().  On Y the loop    *)
(* starts over: every local of main is rebound before it is read again, so  *)
(* the locals and the matrices they reference are dropped here.             *)
PromptToContinue ==
    /\ pc = "prompt"
    /\ \E t \in TypedAnswer :
          LET a == prompt_to_continue(t)
          IN /\ typed' = [at |-> "prompt", line |-> t]
             /\ \/ /\ ~a.returns
                   /\ console' = PrintedAfterInput(a.printed)
                   /\ pc' = "prompt"
                   /\ UNCHANGED <<rows, cols, seed, iterations, i, matrix, heap, runVars>>
                \/ /\ a.returns /\ a.value
                   /\ console' = PrintedAfterInput(<<>>)
                   /\ pc' = "while"
                   /\ rows' = None /\ cols' = None /\ seed' = None
                   /\ iterations' = None /\ i' = None /\ matrix' = 0
                   /\ heap' = [r \in Refs |-> NoMatrix]
                   /\ calls' = 0 /\ initial' = NoMatrix /\ stepIn' = NoMatrix
                   /\ lastOut' = NoMatrix /\ handed' = NoMatrix
                   /\ UNCHANGED <<lastRead, write_ret>>
                \/ /\ a.returns /\ ~a.value
                   /\ console' = PrintedAfterInput(<<GoodbyeLine>>)
                   /\ pc' = "done"
                   /\ UNCHANGED <<rows, cols, seed, iterations, i, matrix, heap, runVars>>
    /\ UNCHANGED <<stepVars, fileState, coreVars>>

Next ==
    \/ Banner \/ NewRun \/ GetRows \/ GetCols \/ GetSeed \/ GetIterations
    \/ Generate \/ ForNext \/ StepCell \/ StepReturn
    \/ WriteFinal \/ PrintComplete \/ PromptToContinue
Spec == Init /\ [][Next]_vars

(* The interpreter keeps executing main between two input() calls: every    *)
(* step that reads no input is taken once it is enabled.                    *)
Running == ForNext \/ StepCell \/ StepReturn \/ WriteFinal \/ PrintComplete
FairSpec == Spec /\ WF_vars(Running)

----------------------------------------------------------------------------
(* SpecCore: the two core functions applied to every small matrix *)
CoreShapes == {s \in (1..MaxCells) \X (1..MaxCells) : s[1] * s[2] <= MaxCells}

MainIdle ==
    /\ pc = "idle" /\ rows = None /\ cols = None /\ seed = None
    /\ iterations = None /\ i = None /\ matrix = 0
    /\ heap = [r \in Refs |-> NoMatrix] /\ new_matrix = 0
    /\ row = None /\ col = None /\ console = <<>> /\ fileState = "absent"
    /\ write_ret = "none" /\ calls = 0 /\ initial = NoMatrix /\ stepIn = NoMatrix
    /\ lastOut = NoMatrix /\ handed = NoMatrix /\ lastRead = None
    /\ typed = NoInput

InitCore ==
    /\ MainIdle
    /\ \E s \in CoreShapes : grid \in Matrices(s[1], s[2])
    /\ prev = NoMatrix /\ coreOp = "none" /\ cRow = 0 /\ cCol = 0 /\ alive_count = 0

(* coreOp, prev, cRow, cCol, alive_count describe the latest call only *)
CoreCount ==
    /\ \E r \in 0..(Len(grid) - 1), c \in 0..(Len2(grid) - 1) :
          /\ cRow' = r /\ cCol' = c
          /\ alive_count' = count_alive_neighbors(grid, r, c)
    /\ coreOp' = "count"
    /\ prev' = NoMatrix
    /\ UNCHANGED <<grid, mainVars>>

CoreStep ==
    /\ grid' = step_matrix(grid)
    /\ prev' = grid
    /\ coreOp' = "step"
    /\ cRow' = 0 /\ cCol' = 0 /\ alive_count' = 0
    /\ UNCHANGED mainVars

NextCore == CoreCount \/ CoreStep
SpecCore == InitCore /\ [][NextCore]_vars

----------------------------------------------------------------------------
(* Properties of the core functions (SpecCore) *)
Offsets == ({0 - 1, 0, 1} \X {0 - 1, 0, 1}) \ {<<0, 0>>}
Wrapped(m, ro, co, d) == <<(ro + d[1]) % Len(m), (co + d[2]) % Len2(m)>>
OffsetCount(m, ro, co) ==
    Cardinality({d \in Offsets :
        Cell(m, Wrapped(m, ro, co, d)[1], Wrapped(m, ro, co, d)[2]) = ALIVE})
RuleAlive(m, ro, co) ==
    LET n == OffsetCount(m, ro, co)
    IN \/ Cell(m, ro, co) = ALIVE /\ n \in {2, 3, 4}
       \/ Cell(m, ro, co) = DEAD /\ n > 0 /\ n % 2 = 0
SetCell(m, ro, co, v) == [m EXCEPT ![ro + 1][co + 1] = v]
TopRowAlive3 == <<(<<ALIVE, ALIVE, ALIVE>>), (<<DEAD, DEAD, DEAD>>), (<<DEAD, DEAD, DEAD>>)>>
OnlyOrigin3 == <<(<<ALIVE, DEAD, DEAD>>), (<<DEAD, DEAD, DEAD>>), (<<DEAD, DEAD, DEAD>>)>>

(* C1: every cell of step_matrix(m) is ALIVE exactly when the input cell is  *)
(* ALIVE with 2, 3 or 4 live neighbours, or DEAD with a positive even number *)
(* of them, and DEAD otherwise; the 3x3 matrix with only row 0 alive maps to *)
(* the matrix the rule gives by hand (itself).                               *)
C1_StepRule ==
    coreOp = "step" =>
        /\ \A r \in 0..(Len(prev) - 1), c \in 0..(Len2(prev) - 1) :
              /\ Cell(grid, r, c) \in CellStates
              /\ Cell(grid, r, c) = ALIVE <=> RuleAlive(prev, r, c)
        /\ prev = TopRowAlive3 => grid = TopRowAlive3
C1_Witness ==
    /\ coreOp = "step"
    /\ \E r \in 0..(Len(prev) - 1), c \in 0..(Len2(prev) - 1) :
          Cell(prev, r, c) = ALIVE /\ OffsetCount(prev, r, c) = 4 /\ Cell(grid, r, c) = ALIVE
    /\ \E r \in 0..(Len(prev) - 1), c \in 0..(Len2(prev) - 1) :
          Cell(prev, r, c) = ALIVE /\ OffsetCount(prev, r, c) = 5 /\ Cell(grid, r, c) = DEAD
    /\ \E r \in 0..(Len(prev) - 1), c \in 0..(Len2(prev) - 1) :
          Cell(prev, r, c) = DEAD /\ OffsetCount(prev, r, c) = 3 /\ Cell(grid, r, c) = DEAD

(* C2: count_alive_neighbors returns the number of the 8 non-zero offsets    *)
(* whose toroidally wrapped cell is ALIVE, a value in 0..8; on the 3x3       *)
(* matrix with only (0,0) alive the count at (2,2) is 1.                     *)
C2_NeighbourCount ==
    coreOp = "count" =>
        /\ alive_count = OffsetCount(grid, cRow, cCol)
        /\ alive_count \in 0..8
        /\ (grid = OnlyOrigin3 /\ cRow = 2 /\ cCol = 2) => alive_count = 1
C2_Witness ==
    coreOp = "count" /\ grid = OnlyOrigin3 /\ cRow = 2 /\ cCol = 2 /\ alive_count = 1

(* C3 as stated: for every matrix with rows >= 1 and cols >= 1 the cell      *)
(* itself is none of the examined coordinates and the count does not depend  *)
(* on the cell's own state.                                                  *)
SelfNeverCounted ==
    /\ <<cRow, cCol>> \notin Range(NeighborCoords(Len(grid), Len2(grid), cRow, cCol, 0))
    /\ alive_count = count_alive_neighbors(SetCell(grid, cRow, cCol, ALIVE), cRow, cCol)
    /\ alive_count = count_alive_neighbors(SetCell(grid, cRow, cCol, DEAD), cRow, cCol)
C3_Original == coreOp = "count" => SelfNeverCounted

(* C3: for every matrix with rows >= 2 and cols >= 2 the cell itself is none *)
(* of the 8 wrapped coordinates count_alive_neighbors examines, and the      *)
(* count is the same whether the cell is ALIVE or DEAD.                      *)
C3_SelfNeverCounted ==
    (coreOp = "count" /\ Len(grid) >= 2 /\ Len2(grid) >= 2) => SelfNeverCounted
C3_Witness ==
    /\ coreOp = "count" /\ Len(grid) >= 2 /\ Len2(grid) >= 2
    /\ Cell(grid, cRow, cCol) = ALIVE /\ alive_count = 0

(* C6: an all-DEAD matrix maps to itself under step_matrix, so once the      *)
(* matrix is all DEAD it stays all DEAD at every later step.                 *)
C6_AllDeadFixed == [][AllDead(grid) => grid' = grid]_vars
C6_Witness == coreOp = "step" /\ AllDead(prev) /\ grid = prev /\ Len(grid) * Len2(grid) = 9

----------------------------------------------------------------------------
(* Properties of the program (Spec, FairSpec) *)
InRun == pc \in {"for", "step", "write", "complete", "prompt", "done"}
ValidInt(t, lo, hi) == IntParse(t).ok /\ lo <= IntParse(t).val /\ IntParse(t).val <= hi
Written(r, c) == r < row \/ (r = row /\ c < col)      \* assigned so far, row-major

(* C4: during one step_matrix call the input matrix is unchanged after every *)
(* cell assignment and at return, every determine_cell_state call reads the  *)
(* input matrix and never the matrix being built, so each cell assigned so   *)
(* far is the rule applied to the input; the result is a distinct object.    *)
C4_DoubleBuffer ==
    pc = "step" =>
        /\ heap[matrix] = stepIn
        /\ new_matrix # matrix
        /\ lastRead \in {None, matrix}
        /\ \A r \in 0..(Len(stepIn) - 1), c \in 0..(Len2(stepIn) - 1) :
              Cell(heap[new_matrix], r, c) =
                  IF Written(r, c) THEN Cell(step_matrix(stepIn), r, c) ELSE DEAD
C4_Witness ==
    /\ pc = "step" /\ row = Len(heap[matrix]) /\ lastRead = matrix
    /\ heap[new_matrix] # stepIn /\ ~AllDead(heap[new_matrix]) /\ heap[matrix] = stepIn

(* C5: throughout a run the current matrix, and the matrix step_matrix is    *)
(* building, have exactly `rows` rows of exactly `cols` cells, each ALIVE or *)
(* DEAD.                                                                     *)
C5_Rectangular ==
    /\ InRun => IsRect(heap[matrix], rows, cols)
    /\ pc = "step" => IsRect(heap[new_matrix], rows, cols)
C5_Witness == pc = "for" /\ calls = 2 /\ rows # cols /\ heap[matrix] # initial

(* The chain of step_matrix calls of a run *)
C7_Chain ==
    /\ InRun => iterations \in MIN_TIME_STEP..MAX_TIME_STEP /\ calls <= iterations
    /\ pc = "step" => stepIn = (IF calls = 1 THEN initial ELSE lastOut)
    /\ pc \in {"write", "complete", "prompt", "done"} => calls = iterations
    /\ pc \in {"complete", "prompt", "done"} => handed = lastOut
(* C7: a run with N requested iterations makes exactly N step_matrix calls   *)
(* and then reaches write_final_time_step; the first call consumes the       *)
(* generated matrix, every later call the output of the call before it, and  *)
(* the matrix handed to write_final_time_step is the output of the N-th.     *)
C7_ExactlyN == []C7_Chain /\ ((pc = "for" /\ calls = 0) ~> (pc = "write"))
C7_Witness ==
    /\ pc = "complete" /\ iterations = 2 /\ calls = 2 /\ handed = lastOut
    /\ stepIn # initial /\ lastOut # stepIn

(* C8: get_dimension returns only integers in 3..20 and get_iterations only  *)
(* integers in 1..99; a typed line that is no integer or out of range leaves *)
(* the program at the same prompt, so generate_matrix and step_matrix run    *)
(* only with rows, cols in 3..20 and iterations in 1..99.                    *)
C8_ValidatedInput ==
    /\ pc \notin {"start", "while", "get_rows"} => rows \in MIN_DIMENSION..MAX_DIMENSION
    /\ pc \notin {"start", "while", "get_rows", "get_cols"} =>
          cols \in MIN_DIMENSION..MAX_DIMENSION
    /\ pc \in {"generate"} \cup {"for", "step", "write", "complete", "prompt", "done"} =>
          iterations \in MIN_TIME_STEP..MAX_TIME_STEP
    /\ typed.at = "get_rows" =>
          IF ValidInt(typed.line, MIN_DIMENSION, MAX_DIMENSION)
          THEN pc = "get_cols" /\ rows = IntParse(typed.line).val
          ELSE pc = "get_rows"
    /\ typed.at = "get_cols" =>
          IF ValidInt(typed.line, MIN_DIMENSION, MAX_DIMENSION)
          THEN pc = "get_seed" /\ cols = IntParse(typed.line).val
          ELSE pc = "get_cols"
    /\ typed.at = "get_iterations" =>
          IF ValidInt(typed.line, MIN_TIME_STEP, MAX_TIME_STEP)
          THEN pc \in {"generate"} \cup {"for", "step", "write", "complete", "prompt", "done"}
               /\ iterations = IntParse(typed.line).val
          ELSE pc = "get_iterations"
C8_Witness ==
    /\ pc = "get_iterations" /\ typed = [at |-> "get_iterations", line |-> <<"1", "0", "0">>]
    /\ rows = 3 /\ cols = 4

(* A failed write neither aborts main nor goes unreported *)
C9_Caught ==
    /\ pc # "crashed"
    /\ (pc = "complete" /\ write_ret = "False") =>
          console # <<>> /\ console[Len(console)] = WriteError
    /\ (write_ret = "False" /\ typed.at = "prompt" /\ Upper(typed.line) = <<"Y">>) =>
          pc \in {"while", "get_rows"}
(* C9: a failed write is caught and reported, the run is not aborted: main   *)
(* goes on to prompt_to_continue, and answering Y there starts a new run.    *)
C9_WriteFailureNotFatal ==
    []C9_Caught /\ ((pc = "complete" /\ write_ret = "False") ~> (pc = "prompt"))
C9_Witness ==
    /\ write_ret = "False" /\ typed = [at |-> "prompt", line |-> <<"y">>]
    /\ pc = "get_rows"

(* C10: the "Simulation complete!" message is printed right after            *)
(* write_final_time_step returns, whatever it returned: when main reaches    *)
(* prompt_to_continue the last lines printed are the blank line and the      *)
(* message, preceded after a failed write by the error report.               *)
C10_AlwaysSaysSaved ==
    (pc = "prompt" /\ typed.at # "prompt") =>
        /\ Len(console) >= 3
        /\ console[Len(console)] = SimulationComplete
        /\ console[Len(console) - 1] = ""
        /\ write_ret = "False" => console[Len(console) - 2] = WriteError
        /\ write_ret = "True" => console[Len(console) - 2] # WriteError
C10_Witness ==
    /\ pc = "prompt" /\ typed.at # "prompt" /\ write_ret = "False"
    /\ console[Len(console)] = SimulationComplete /\ console[Len(console) - 2] = WriteError

====
